---- MODULE Spec2Model ----
(***************************************************************************)
(* Webex Calling partner report: the per-organization aggregate            *)
(* (webex.py, class WebexCallingInfo), the row projector (report.py,       *)
(* populate_df) and the report driver (report.py, generate_calling_report).*)
(*                                                                         *)
(* The upstream services are the environment: every HTTP exchange is a     *)
(* nondeterministic choice of the responses the upstream gives.            *)
(***************************************************************************)
EXTENDS Integers, Sequences, FiniteSets, TLC

\* ------------------------------------------------------------------ bounds
\* Longest organization listing the upstream returns.
MaxOrgs == 2
\* Longest license list the upstream returns for one organization.
MaxLicenses == 2
\* Longest phone-number list the upstream returns for one organization.
MaxNumbers == 2
\* Longest trunk list the upstream returns for one organization.
MaxTrunks == 2
\* Most calls of one run that receive a non-success response.
MaxFaulty == 2

\* ------------------------------------------------------------ small helpers
Range(s) == {s[i] : i \in DOMAIN s}

SeqsUpTo(S, n) == UNION {[1..k -> S] : k \in 0..n}

\* Python None as a JSON value (bodies are records, so None is one too).
None == [kind |-> "None"]

\* Python's empty dict; a dict is a function from its keys.
EmptyDict == <<>>

\* d[k] = v
Put(d, k, v) == (k :> v) @@ d

\* sep.join(items) for a list of strings
RECURSIVE Join(_, _)
Join(items, sep) ==
  IF items = <<>> THEN ""
  ELSE IF Len(items) = 1 THEN items[1]
  ELSE items[1] \o sep \o Join(Tail(items), sep)

\* ------------------------------------------------------------ configuration
\* config.PARTNER_ORG_NAME
PARTNER_ORG_NAME == "Partner"

\* ---------------------------------------------------------- HTTP responses
\* requests.Response: status code and JSON body.
Reply(status, body) == [status_code |-> status, body |-> body]

\* The status codes the upstream answers with.
Statuses == {200, 403, 500}

ErrorBody == [kind |-> "error"]

\* requests.Response.ok
ok(response) == response.status_code < 400

\* What the upstream may answer to one request whose successful bodies are
\* `bodies`.
Replies(bodies) ==
  {Reply(200, b) : b \in bodies} \cup {Reply(s, ErrorBody) : s \in Statuses \ {200}}

\* The responses the upstream gives to the requests of one get_wrapper call,
\* in the order the requests are issued: the original request, and after a
\* 403 the organization-details request and the repeated original request.
Exchanges(bodies, org_bodies) ==
  {<<r>> : r \in {x \in Replies(bodies) : x.status_code # 403}}
  \cup {<<Reply(403, ErrorBody), r2, r3>> :
          r2 \in Replies(org_bodies), r3 \in Replies(bodies)}

\* Whether a call received some non-success response.
Faulty(resps) == \E i \in DOMAIN resps : ~ok(resps[i])

\* ------------------------------------------------------------- get_wrapper
\* A get_wrapper that forgets to raise the error flag on failure.
get_wrapper_no_flag(self, resps) ==
  IF ok(resps[1]) THEN [self |-> self, ret |-> resps[1].body, sent |-> 1]
  ELSE IF resps[1].status_code = 403 /\ ok(resps[3])
       THEN [self |-> self, ret |-> resps[3].body, sent |-> 3]
       ELSE [self |-> self, ret |-> None,
             sent |-> IF resps[1].status_code = 403 THEN 3 ELSE 1]

\* A get_wrapper that returns after the 403 recovery without looking at the
\* retried response.
get_wrapper_no_retry_body(self, resps) ==
  IF ok(resps[1]) THEN [self |-> self, ret |-> resps[1].body, sent |-> 1]
  ELSE [self |-> [self EXCEPT !.error_flag = TRUE], ret |-> None,
        sent |-> IF resps[1].status_code = 403 THEN 3 ELSE 1]

\* A get_wrapper that gives up, without the retry, when the
\* organization-details request of the 403 recovery fails.
get_wrapper_no_retry_after_failed_refresh(self, resps) ==
  IF ok(resps[1]) THEN [self |-> self, ret |-> resps[1].body, sent |-> 1]
  ELSE IF resps[1].status_code = 403 /\ ~ok(resps[2])
       THEN [self |-> [self EXCEPT !.error_flag = TRUE], ret |-> None, sent |-> 2]
       ELSE IF resps[1].status_code = 403 /\ ok(resps[3])
            THEN [self |-> self, ret |-> resps[3].body, sent |-> 3]
            ELSE [self |-> [self EXCEPT !.error_flag = TRUE], ret |-> None,
                  sent |-> IF resps[1].status_code = 403 THEN 3 ELSE 1]

\* A get_wrapper that raises the error flag at the first 403, also when the
\* retry succeeds.
get_wrapper_flags_recovered(self, resps) ==
  IF ok(resps[1]) THEN [self |-> self, ret |-> resps[1].body, sent |-> 1]
  ELSE IF resps[1].status_code = 403 /\ ok(resps[3])
       THEN [self |-> [self EXCEPT !.error_flag = TRUE], ret |-> resps[3].body,
             sent |-> 3]
       ELSE [self |-> [self EXCEPT !.error_flag = TRUE], ret |-> None,
             sent |-> IF resps[1].status_code = 403 THEN 3 ELSE 1]

\* WebexCallingInfo.get_wrapper: the aggregate after the call, the value
\* returned and the number of requests sent.  resps[i] is the response to the
\* i-th request the call issues.
get_wrapper(self, resps) ==
  IF ok(resps[1]) THEN [self |-> self, ret |-> resps[1].body, sent |-> 1]
  ELSE IF resps[1].status_code = 403 /\ ok(resps[3])
       THEN [self |-> self, ret |-> resps[3].body, sent |-> 3]
       ELSE [self |-> [self EXCEPT !.error_flag = TRUE], ret |-> None,
             sent |-> IF resps[1].status_code = 403 THEN 3 ELSE 1]

\* `if response:` on a get_wrapper result
Truthy(ret) == ret # None

\* ------------------------------------------------- the organization aggregate
\* WebexCallingInfo.__init__
WebexCallingInfo(id, org_name) ==
  [error_flag |-> FALSE,
   id |-> id,
   org_id |-> "None",
   displayName |-> org_name,
   trunks |-> <<>>,
   professional_licenses |-> EmptyDict,
   workspace_licenses |-> EmptyDict,
   sub_ids |-> <<>>,
   sub_start_dates |-> <<>>,
   sub_end_dates |-> <<>>,
   phone_numbers |-> <<>>,
   outgoing_permissions |-> EmptyDict,
   intercept_settings |-> EmptyDict]

\* The organizations of the upstream: API id and display name.
Organizations ==
  {[id |-> "Y2lzY29zcGFyazovL3VzL09SR0FOSVpBVElPTi8xMDAw", displayName |-> PARTNER_ORG_NAME],
   [id |-> "Y2lzY29zcGFyazovL3VzL09SR0FOSVpBVElPTi8xMjM0", displayName |-> "Acme"],
   [id |-> "Y2lzY29zcGFyazovL3VzL09SR0FOSVpBVElPTi81Njc4", displayName |-> "Bolt"]}

\* base64.b64decode(id + '==').decode('utf-8').split('/'), on the ids above
DecodedSegments(id) ==
  CASE id = "Y2lzY29zcGFyazovL3VzL09SR0FOSVpBVElPTi8xMDAw"
         -> <<"ciscospark:", "", "us", "ORGANIZATION", "1000">>
    [] id = "Y2lzY29zcGFyazovL3VzL09SR0FOSVpBVElPTi8xMjM0"
         -> <<"ciscospark:", "", "us", "ORGANIZATION", "1234">>
    [] id = "Y2lzY29zcGFyazovL3VzL09SR0FOSVpBVElPTi81Njc4"
         -> <<"ciscospark:", "", "us", "ORGANIZATION", "5678">>

\* WebexCallingInfo.get_org_id
get_org_id(self) ==
  LET decoded_id == DecodedSegments(self.id)
  IN [self EXCEPT !.org_id = decoded_id[Len(decoded_id)]]

\* Body of the organization-details endpoint for the organization `id`.
OrgDetailsBodies(id) ==
  {[kind |-> "organization", displayName |-> o.displayName] :
     o \in {x \in Organizations : x.id = id}}

\* WebexCallingInfo.get_org_details
get_org_details(self, resps) ==
  LET r == get_wrapper(self, resps)
  IN IF Truthy(r.ret) THEN [r.self EXCEPT !.displayName = r.ret.displayName]
     ELSE r.self

\* ----------------------------------------------------------------- licenses
Professional == "Webex Calling - Professional"
Workspaces == "Webex Calling - Workspaces"

License(name, consumed, total) ==
  [name |-> name, consumedUnits |-> consumed, totalUnits |-> total]

WithSub(license, sub) == ("subscriptionId" :> sub) @@ license

\* License entries the upstream may list (the last three: an empty
\* subscription id, no subscriptionId field, a license of another product).
LicenseEntries ==
  {WithSub(License(Professional, 3, 5), "Sub1"),
   WithSub(License(Professional, 4, 6), "Sub2"),
   WithSub(License(Workspaces, 2, 2), "Sub1"),
   WithSub(License(Workspaces, 1, 4), ""),
   License(Professional, 0, 1),
   WithSub(License("Webex Meetings", 9, 9), "Sub3")}

\* A loop body that stores the units of the last entry of a kind instead of
\* summing them.
AddLicense_overwrites(counts, sub_ids, license) ==
  LET stored == Put(Put(counts, "provisioned", license.consumedUnits),
                    "booked", license.totalUnits)
      subs ==
        IF "subscriptionId" \in DOMAIN license /\ license.subscriptionId # ""
           /\ license.subscriptionId \notin Range(sub_ids)
        THEN Append(sub_ids, license.subscriptionId)
        ELSE sub_ids
  IN [counts |-> stored, sub_ids |-> subs]

\* A loop body that collects a subscription id every time it is seen.
AddLicense_keeps_duplicates(counts, sub_ids, license) ==
  LET summed ==
        IF "provisioned" \in DOMAIN counts /\ "booked" \in DOMAIN counts
        THEN [counts EXCEPT !.provisioned = @ + license.consumedUnits,
                            !.booked = @ + license.totalUnits]
        ELSE Put(Put(counts, "provisioned", license.consumedUnits),
                 "booked", license.totalUnits)
      subs ==
        IF "subscriptionId" \in DOMAIN license /\ license.subscriptionId # ""
        THEN Append(sub_ids, license.subscriptionId)
        ELSE sub_ids
  IN [counts |-> summed, sub_ids |-> subs]

\* The `for license in licenses` loop body for one license kind: sum the
\* units, collect the subscription id.
AddLicense(counts, sub_ids, license) ==
  LET summed ==
        IF "provisioned" \in DOMAIN counts /\ "booked" \in DOMAIN counts
        THEN [counts EXCEPT !.provisioned = @ + license.consumedUnits,
                            !.booked = @ + license.totalUnits]
        ELSE Put(Put(counts, "provisioned", license.consumedUnits),
                 "booked", license.totalUnits)
      subs ==
        IF "subscriptionId" \in DOMAIN license /\ license.subscriptionId # ""
           /\ license.subscriptionId \notin Range(sub_ids)
        THEN Append(sub_ids, license.subscriptionId)
        ELSE sub_ids
  IN [counts |-> summed, sub_ids |-> subs]

RECURSIVE CountLicenses(_, _)
CountLicenses(self, licenses) ==
  IF licenses = <<>> THEN self
  ELSE
    LET license == Head(licenses)
        w == AddLicense(self.workspace_licenses, self.sub_ids, license)
        s1 == IF license.name = Workspaces
              THEN [self EXCEPT !.workspace_licenses = w.counts, !.sub_ids = w.sub_ids]
              ELSE self
        p == AddLicense(s1.professional_licenses, s1.sub_ids, license)
        s2 == IF license.name = Professional
              THEN [s1 EXCEPT !.professional_licenses = p.counts, !.sub_ids = p.sub_ids]
              ELSE s1
    IN CountLicenses(s2, Tail(licenses))

\* WebexCallingInfo.get_license_counts
get_license_counts(self, resps) ==
  LET r == get_wrapper(self, resps)
  IN IF Truthy(r.ret) THEN CountLicenses(r.self, r.ret.items) ELSE r.self

\* ------------------------------------------------------- subscription dates
\* A timestamp of the commerce API ('%Y-%m-%dT%H:%M:%S.%f%z'): its date part.
Timestamp(y, m, d) == [year |-> y, month |-> m, day |-> d]

Pad2(n) == IF n < 10 THEN "0" \o ToString(n) ELSE ToString(n)

\* datetime.strptime(...).strftime('%m/%d/%Y')
FormatDate(ts) == Pad2(ts.month) \o "/" \o Pad2(ts.day) \o "/" \o ToString(ts.year)

\* `'SUCCESS' in responseExpression`, on the expressions of LookupBodies
HasSuccess(expression) == expression \in {"SUCCESS"}

\* Bodies of getSubscriptionDetails: the response expression and, when the
\* subscription was found, its start and end timestamps.
LookupBodies ==
  {[kind |-> "subscription", responseExpression |-> "SUCCESS",
    startDateTime |-> Timestamp(2023, 1, 15), endDateTime |-> Timestamp(2024, 1, 14)],
   [kind |-> "subscription", responseExpression |-> "GSA003"]}

\* Status codes of the commerce API (token and lookup requests).
CommerceStatuses == {200, 500}

\* A loop body that skips a subscription whose lookup does not report
\* SUCCESS.
license_date_lookup_skips_unconfirmed(self, response) ==
  IF response.status_code = 200
  THEN IF HasSuccess(response.body.responseExpression)
       THEN [self EXCEPT
               !.sub_start_dates = Append(@, FormatDate(response.body.startDateTime)),
               !.sub_end_dates = Append(@, FormatDate(response.body.endDateTime))]
       ELSE self
  ELSE [self EXCEPT !.error_flag = TRUE]

\* get_license_dates, body of `for sub_id in self.sub_ids` for one response
license_date_lookup(self, response) ==
  IF response.status_code = 200
  THEN IF HasSuccess(response.body.responseExpression)
       THEN [self EXCEPT
               !.sub_start_dates = Append(@, FormatDate(response.body.startDateTime)),
               !.sub_end_dates = Append(@, FormatDate(response.body.endDateTime))]
       ELSE [self EXCEPT !.sub_start_dates = Append(@, "Unknown"),
                         !.sub_end_dates = Append(@, "Unknown")]
  ELSE [self EXCEPT !.error_flag = TRUE]

\* get_license_dates, the token request failing
license_date_token_failed(self) == [self EXCEPT !.error_flag = TRUE]

\* ------------------------------------------------------------ phone numbers
\* A phone number string as its pieces, so that '+' can be told apart.
PhoneNumber(pieces) == pieces

\* s.replace('+', '')
StripPlus(pieces) == Join(SelectSeq(pieces, LAMBDA c : c # "+"), "")

Owner(type, first, last, id) ==
  [type |-> type, firstName |-> first, lastName |-> last, id |-> id]

\* Number entries the upstream may list: a main number of a person, an
\* extension of the same person, a number of a workspace without a state.
NumberEntries ==
  {[phoneNumber |-> PhoneNumber(<<"+", "15551000">>), mainNumber |-> TRUE,
    location |-> [name |-> "HQ"], owner |-> Owner("PEOPLE", "Ann", "Lee", "U1"),
    state |-> "ACTIVE"],
   [extension |-> "100", mainNumber |-> FALSE,
    owner |-> Owner("PEOPLE", "Ann", "Lee", "U1"), state |-> "INACTIVE"],
   [phoneNumber |-> PhoneNumber(<<"+", "15552000">>), location |-> [name |-> "Lab"],
    owner |-> Owner("PLACE", "Lobby", "Phone", "W1")]}

\* A loop body that takes the owner of a number whatever its type is.
number_info_any_owner(number) ==
  LET owned == "owner" \in DOMAIN number
  IN [phone_number |->
        IF "phoneNumber" \in DOMAIN number /\ number.phoneNumber # <<>>
        THEN StripPlus(number.phoneNumber) ELSE "",
      main_number |->
        IF "mainNumber" \in DOMAIN number /\ number.mainNumber THEN "Main" ELSE "",
      extension |-> IF "extension" \in DOMAIN number THEN number.extension ELSE "",
      location |-> IF "location" \in DOMAIN number THEN number.location.name ELSE "",
      owner |-> IF owned THEN number.owner.firstName \o " " \o number.owner.lastName
                ELSE "",
      owner_id |-> IF owned /\ number.owner.id # "" THEN number.owner.id ELSE "",
      status |-> IF "state" \in DOMAIN number
                 THEN IF number.state = "ACTIVE" THEN "Active" ELSE "Not Applicable"
                 ELSE ""]

\* A loop body that shows every number that carries a state as active.
number_info_always_active(number) ==
  LET people == "owner" \in DOMAIN number /\ number.owner.type = "PEOPLE"
  IN [phone_number |->
        IF "phoneNumber" \in DOMAIN number /\ number.phoneNumber # <<>>
        THEN StripPlus(number.phoneNumber) ELSE "",
      main_number |->
        IF "mainNumber" \in DOMAIN number /\ number.mainNumber THEN "Main" ELSE "",
      extension |-> IF "extension" \in DOMAIN number THEN number.extension ELSE "",
      location |-> IF "location" \in DOMAIN number THEN number.location.name ELSE "",
      owner |-> IF people THEN number.owner.firstName \o " " \o number.owner.lastName
                ELSE "",
      owner_id |-> IF people /\ number.owner.id # "" THEN number.owner.id ELSE "",
      status |-> IF "state" \in DOMAIN number THEN "Active" ELSE ""]

\* get_phone_numbers, body of `for number in numbers`
number_info(number) ==
  LET people == "owner" \in DOMAIN number /\ number.owner.type = "PEOPLE"
  IN [phone_number |->
        IF "phoneNumber" \in DOMAIN number /\ number.phoneNumber # <<>>
        THEN StripPlus(number.phoneNumber) ELSE "",
      main_number |->
        IF "mainNumber" \in DOMAIN number /\ number.mainNumber THEN "Main" ELSE "",
      extension |-> IF "extension" \in DOMAIN number THEN number.extension ELSE "",
      location |-> IF "location" \in DOMAIN number THEN number.location.name ELSE "",
      owner |-> IF people THEN number.owner.firstName \o " " \o number.owner.lastName
                ELSE "",
      owner_id |-> IF people /\ number.owner.id # "" THEN number.owner.id ELSE "",
      status |-> IF "state" \in DOMAIN number
                 THEN IF number.state = "ACTIVE" THEN "Active" ELSE "Not Applicable"
                 ELSE ""]

\* WebexCallingInfo.get_phone_numbers
get_phone_numbers(self, resps) ==
  LET r == get_wrapper(self, resps)
  IN IF Truthy(r.ret)
     THEN [r.self EXCEPT !.phone_numbers =
             @ \o [i \in 1..Len(r.ret.phoneNumbers) |-> number_info(r.ret.phoneNumbers[i])]]
     ELSE r.self

\* ------------------------------------------------------ outbound permissions
\* str.title() on the actions of the upstream
Title(action) ==
  CASE action = "ALLOW" -> "Allow"
    [] action = "BLOCK" -> "Block"
    [] action = "AUTH_CODE" -> "Auth_Code"

\* The record field each call type is stored in.
CallTypeField ==
  [INTERNAL_CALL |-> "internal",
   TOLL_FREE |-> "toll_free",
   NATIONAL |-> "national",
   INTERNATIONAL |-> "international",
   OPERATOR_ASSISTED |-> "operator_assistance",
   CHARGEABLE_DIRECTORY_ASSISTED |-> "chargeable_directory_assistance",
   SPECIAL_SERVICES_I |-> "special_services_1",
   SPECIAL_SERVICES_II |-> "special_services_2",
   PREMIUM_SERVICES_I |-> "premium_services_1",
   PREMIUM_SERVICES_II |-> "premium_services_2"]

DetailFields == {CallTypeField[t] : t \in DOMAIN CallTypeField}

Permission(callType, action) == [callType |-> callType, action |-> action]

\* Bodies of the outgoingPermission feature.
PermissionBodies ==
  {[kind |-> "outgoingPermission", useCustomEnabled |-> FALSE,
    callingPermissions |-> <<Permission("INTERNAL_CALL", "ALLOW"),
                             Permission("NATIONAL", "BLOCK")>>],
   [kind |-> "outgoingPermission", useCustomEnabled |-> TRUE,
    callingPermissions |-> <<Permission("INTERNAL_CALL", "ALLOW"),
                             Permission("INTERNATIONAL", "BLOCK"),
                             Permission("PREMIUM_SERVICES_II", "AUTH_CODE"),
                             Permission("URL_DIALING", "ALLOW")>>]}

RECURSIVE RecordPermissions(_, _)
RecordPermissions(number_permissions, permissions) ==
  IF permissions = <<>> THEN number_permissions
  ELSE LET permission == Head(permissions)
       IN RecordPermissions(
            IF permission.callType \in DOMAIN CallTypeField
            THEN [number_permissions EXCEPT
                    ![CallTypeField[permission.callType]] = Title(permission.action)]
            ELSE number_permissions,
            Tail(permissions))

\* A record that takes over the calling permissions of the response whatever
\* useCustomEnabled says.
number_permissions_records_default(response) ==
  LET blank == [f \in DetailFields |-> ""]
  IN Put(RecordPermissions(blank, response.callingPermissions),
         "outgoing_call_permissions",
         IF response.useCustomEnabled THEN "Custom Settings" ELSE "Default Settings")

\* get_outbound_permissions: the record built from one response
number_permissions(response) ==
  LET blank == [f \in DetailFields |-> ""]
  IN IF response.useCustomEnabled
     THEN Put(RecordPermissions(blank, response.callingPermissions),
              "outgoing_call_permissions", "Custom Settings")
     ELSE Put(blank, "outgoing_call_permissions", "Default Settings")

\* A loop body that keeps the first record stored for an owner.
outbound_permission_lookup_keeps_first(self, phone_number, resps) ==
  LET r == get_wrapper(self, resps)
  IN IF Truthy(r.ret) /\ phone_number.owner_id \notin DOMAIN r.self.outgoing_permissions
     THEN [r.self EXCEPT !.outgoing_permissions =
             Put(@, phone_number.owner_id, number_permissions(r.ret))]
     ELSE r.self

\* get_outbound_permissions, body of `for phone_number in self.phone_numbers`
outbound_permission_lookup(self, phone_number, resps) ==
  LET r == get_wrapper(self, resps)
  IN IF Truthy(r.ret)
     THEN [r.self EXCEPT !.outgoing_permissions =
             Put(@, phone_number.owner_id, number_permissions(r.ret))]
     ELSE r.self

\* ------------------------------------------------------- intercept settings
\* Bodies of the intercept feature.
InterceptBodies ==
  {[kind |-> "intercept", enabled |-> FALSE, outgoing |-> [type |-> "INTERCEPT_ALL"]],
   [kind |-> "intercept", enabled |-> TRUE, outgoing |-> [type |-> "INTERCEPT_ALL"]],
   [kind |-> "intercept", enabled |-> TRUE, outgoing |-> [type |-> "ALLOW_LOCAL_ONLY"]],
   [kind |-> "intercept", enabled |-> TRUE, outgoing |-> [type |-> "ALLOW_ALL"]]}

\* get_intercept_settings: the record built from one response
current_intercept_settings(response) ==
  IF response.enabled
  THEN LET outgoing_type == response.outgoing.type
           enable == [call_intercept |-> "Enable"]
       IN IF outgoing_type = "INTERCEPT_ALL"
          THEN Put(enable, "outgoing_permissions", "Intercept All Outgoing Calls")
          ELSE IF outgoing_type = "ALLOW_LOCAL_ONLY"
               THEN Put(enable, "outgoing_permissions", "Allow Only National Outgoing Calls")
               ELSE enable
  ELSE [call_intercept |-> "Disable", outgoing_permissions |-> ""]

\* get_intercept_settings, body of `for phone_number in self.phone_numbers`
intercept_lookup(self, phone_number, resps) ==
  LET r == get_wrapper(self, resps)
  IN IF Truthy(r.ret)
     THEN [r.self EXCEPT !.intercept_settings =
             Put(@, phone_number.owner_id, current_intercept_settings(r.ret))]
     ELSE r.self

\* ------------------------------------------------------------------- trunks
TrunkEntries ==
  {[name |-> "Trunk1", id |-> "T1"], [name |-> "Trunk2", id |-> "T2"],
   [name |-> "Trunk3", id |-> "T3"]}

\* Bodies of the usageRouteGroup endpoint.
RouteGroupBodies ==
  {[kind |-> "routeGroups", routeGroups |-> rgs] :
     rgs \in {<<>>, <<[name |-> "RG1"]>>, <<[name |-> "RG1"], [name |-> "RG2"]>>}}

\* A route-group lookup that keeps a trunk without route groups.
route_group_lookup_keeps_empty(self, trunk, resps) ==
  LET r == get_wrapper(self, resps)
      trunk_info == [name |-> trunk.name, id |-> trunk.id, rg_names |-> <<>>]
  IN IF Truthy(r.ret)
     THEN LET RGs == r.ret.routeGroups
          IN [r.self EXCEPT !.trunks =
                Append(@, [trunk_info EXCEPT
                             !.rg_names = [k \in 1..Len(RGs) |-> RGs[k].name]])]
     ELSE r.self

\* A route-group lookup that adds the trunk, without route groups, when its
\* request fails.
route_group_lookup_adds_failed(self, trunk, resps) ==
  LET r == get_wrapper(self, resps)
      trunk_info == [name |-> trunk.name, id |-> trunk.id, rg_names |-> <<>>]
  IN IF Truthy(r.ret)
     THEN LET RGs == r.ret.routeGroups
          IN IF Len(RGs) = 0 THEN r.self
             ELSE [r.self EXCEPT !.trunks =
                     Append(@, [trunk_info EXCEPT
                                  !.rg_names = [k \in 1..Len(RGs) |-> RGs[k].name]])]
     ELSE [r.self EXCEPT !.trunks = Append(@, trunk_info)]

\* get_trunks, body of `for trunk in trunks`
route_group_lookup(self, trunk, resps) ==
  LET r == get_wrapper(self, resps)
      trunk_info == [name |-> trunk.name, id |-> trunk.id, rg_names |-> <<>>]
  IN IF Truthy(r.ret)
     THEN LET RGs == r.ret.routeGroups
          IN IF Len(RGs) = 0 THEN r.self
             ELSE [r.self EXCEPT !.trunks =
                     Append(@, [trunk_info EXCEPT
                                  !.rg_names = [i \in 1..Len(RGs) |-> RGs[i].name]])]
     ELSE r.self

\* ------------------------------------------------------------ row projector
\* A cell that holds either '' or an integer.
Blank == <<>>
Num(n) == <<n>>

\* int(cell) if cell != '' else 0
IntOrZero(cell) == IF cell # Blank THEN cell[1] ELSE 0

\* A license-summary row that shows a missing license kind as 0.
license_row_zeros(calling_info) ==
  LET pro == calling_info.professional_licenses
      work == calling_info.workspace_licenses
      booked_pro == IF Cardinality(DOMAIN pro) # 0 THEN Num(pro.booked) ELSE Num(0)
      prov_pro == IF Cardinality(DOMAIN pro) # 0 THEN Num(pro.provisioned) ELSE Num(0)
      booked_work == IF Cardinality(DOMAIN work) # 0 THEN Num(work.booked) ELSE Num(0)
      prov_work == IF Cardinality(DOMAIN work) # 0 THEN Num(work.provisioned) ELSE Num(0)
  IN [Customer_Name |-> calling_info.displayName,
      Customer_Org_ID |-> calling_info.org_id,
      Sub_Ref_Ids |-> Join(calling_info.sub_ids, ", "),
      Recent_Subscription_Start_Date |-> Join(calling_info.sub_start_dates, ", "),
      Recent_Subscription_End_Date |-> Join(calling_info.sub_end_dates, ", "),
      Booked_TOTAL |-> Num(IntOrZero(booked_pro) + IntOrZero(booked_work)),
      Booked_Professional_Licenses |-> booked_pro,
      Booked_Workspaces |-> booked_work,
      Provisioned_TOTAL |-> Num(IntOrZero(prov_pro) + IntOrZero(prov_work)),
      Provisioned_Professional_Licenses |-> prov_pro,
      Provisioned_Workspaces |-> prov_work]

\* A license-summary row whose totals leave the workspace counts out.
license_row_totals_skip_workspaces(calling_info) ==
  LET pro == calling_info.professional_licenses
      work == calling_info.workspace_licenses
      booked_pro == IF Cardinality(DOMAIN pro) # 0 THEN Num(pro.booked) ELSE Blank
      prov_pro == IF Cardinality(DOMAIN pro) # 0 THEN Num(pro.provisioned) ELSE Blank
      booked_work == IF Cardinality(DOMAIN work) # 0 THEN Num(work.booked) ELSE Blank
      prov_work == IF Cardinality(DOMAIN work) # 0 THEN Num(work.provisioned) ELSE Blank
  IN [Customer_Name |-> calling_info.displayName,
      Customer_Org_ID |-> calling_info.org_id,
      Sub_Ref_Ids |-> Join(calling_info.sub_ids, ", "),
      Recent_Subscription_Start_Date |-> Join(calling_info.sub_start_dates, ", "),
      Recent_Subscription_End_Date |-> Join(calling_info.sub_end_dates, ", "),
      Booked_TOTAL |-> Num(IntOrZero(booked_pro)),
      Booked_Professional_Licenses |-> booked_pro,
      Booked_Workspaces |-> booked_work,
      Provisioned_TOTAL |-> Num(IntOrZero(prov_pro)),
      Provisioned_Professional_Licenses |-> prov_pro,
      Provisioned_Workspaces |-> prov_work]

\* populate_df, report 1: the license-summary row
license_row(calling_info) ==
  LET pro == calling_info.professional_licenses
      work == calling_info.workspace_licenses
      booked_pro == IF Cardinality(DOMAIN pro) # 0 THEN Num(pro.booked) ELSE Blank
      prov_pro == IF Cardinality(DOMAIN pro) # 0 THEN Num(pro.provisioned) ELSE Blank
      booked_work == IF Cardinality(DOMAIN work) # 0 THEN Num(work.booked) ELSE Blank
      prov_work == IF Cardinality(DOMAIN work) # 0 THEN Num(work.provisioned) ELSE Blank
  IN [Customer_Name |-> calling_info.displayName,
      Customer_Org_ID |-> calling_info.org_id,
      Sub_Ref_Ids |-> Join(calling_info.sub_ids, ", "),
      Recent_Subscription_Start_Date |-> Join(calling_info.sub_start_dates, ", "),
      Recent_Subscription_End_Date |-> Join(calling_info.sub_end_dates, ", "),
      Booked_TOTAL |-> Num(IntOrZero(booked_pro) + IntOrZero(booked_work)),
      Booked_Professional_Licenses |-> booked_pro,
      Booked_Workspaces |-> booked_work,
      Provisioned_TOTAL |-> Num(IntOrZero(prov_pro) + IntOrZero(prov_work)),
      Provisioned_Professional_Licenses |-> prov_pro,
      Provisioned_Workspaces |-> prov_work]

\* The ten permission columns of report 2 and the record field each shows.
PermissionColumns ==
  [Internal |-> "internal",
   Toll_free |-> "toll_free",
   National |-> "national",
   International |-> "international",
   Operator_Assistance |-> "operator_assistance",
   Chargeable_Directory_Assistance |-> "chargeable_directory_assistance",
   Special_Services_I |-> "special_services_1",
   Special_Services_II |-> "special_services_2",
   Premium_Services_I |-> "premium_services_1",
   Premium_Services_II |-> "premium_services_2"]

\* populate_df, report 2: the row of an organization without numbers, which
\* is also the blank every number row starts from
blank_number_row(calling_info) ==
  [c \in DOMAIN PermissionColumns |-> ""] @@
  [Customer_Name |-> calling_info.displayName,
   Customer_Org_ID |-> calling_info.org_id,
   Phone_Number |-> "", Main_Number |-> "", Extension |-> "", Location |-> "",
   Assigned_to |-> "", Status |-> "",
   Outgoing_Call_Permissions |-> "",
   Call_Intercept |-> "", Outgoing_Intercept_Permissions |-> ""]

\* populate_df, report 2: intercept['outgoing_permissions'] raises KeyError
number_row_raises(calling_info, number) ==
  /\ number.owner_id # ""
  /\ number.owner_id \in DOMAIN calling_info.intercept_settings
  /\ "outgoing_permissions"
       \notin DOMAIN calling_info.intercept_settings[number.owner_id]

\* populate_df, report 2: the row of one phone number
number_row(calling_info, number) ==
  LET base == [blank_number_row(calling_info) EXCEPT
                 !.Phone_Number = number.phone_number,
                 !.Main_Number = number.main_number,
                 !.Extension = number.extension,
                 !.Location = number.location,
                 !.Assigned_to = number.owner,
                 !.Status = number.status]
      has_perm == number.owner_id # ""
                  /\ number.owner_id \in DOMAIN calling_info.outgoing_permissions
      permissions == calling_info.outgoing_permissions[number.owner_id]
      with_perm ==
        IF has_perm
        THEN IF permissions.outgoing_call_permissions = "Custom Settings"
             THEN [c \in DOMAIN PermissionColumns |-> permissions[PermissionColumns[c]]]
                  @@ [base EXCEPT !.Outgoing_Call_Permissions =
                                     permissions.outgoing_call_permissions]
             ELSE [base EXCEPT !.Outgoing_Call_Permissions =
                                  permissions.outgoing_call_permissions]
        ELSE base
      has_intercept == number.owner_id # ""
                       /\ number.owner_id \in DOMAIN calling_info.intercept_settings
      intercept == calling_info.intercept_settings[number.owner_id]
  IN IF has_intercept
     THEN [with_perm EXCEPT !.Call_Intercept = intercept.call_intercept,
                            !.Outgoing_Intercept_Permissions = intercept.outgoing_permissions]
     ELSE with_perm

\* populate_df, report 3: the row of an organization without trunks
blank_trunk_row(calling_info) ==
  [Customer_Name |-> calling_info.displayName,
   Customer_Org_ID |-> calling_info.org_id,
   TRUNK |-> "", ROUTE_GROUP_NAME |-> ""]

\* populate_df, report 3: the row of one trunk
trunk_row(calling_info, trunk) ==
  [Customer_Name |-> calling_info.displayName,
   Customer_Org_ID |-> calling_info.org_id,
   TRUNK |-> trunk.name, ROUTE_GROUP_NAME |-> Join(trunk.rg_names, ",")]

\* populate_df: the rows built for one report of one organization
report_rows(calling_info, report_number) ==
  IF report_number = 1 THEN <<license_row(calling_info)>>
  ELSE IF report_number = 2
  THEN IF Len(calling_info.phone_numbers) = 0
       THEN <<blank_number_row(calling_info)>>
       ELSE [i \in 1..Len(calling_info.phone_numbers) |->
               number_row(calling_info, calling_info.phone_numbers[i])]
  ELSE IF report_number = 3
  THEN IF Len(calling_info.trunks) = 0
       THEN <<blank_trunk_row(calling_info)>>
       ELSE [i \in 1..Len(calling_info.trunks) |->
               trunk_row(calling_info, calling_info.trunks[i])]
  ELSE <<>>

\* populate_df ends in an exception instead of returning
populate_df_raises(calling_info, report_number) ==
  /\ report_number = 2
  /\ \E i \in 1..Len(calling_info.phone_numbers) :
       number_row_raises(calling_info, calling_info.phone_numbers[i])

\* populate_df: the table returned, pd.concat(rows + [df])
populate_df(calling_info, report_number, df) ==
  report_rows(calling_info, report_number) \o df

\* ------------------------------------------------------------- the upstream
\* What the upstream holds is bounded per run by a profile: the profile names
\* the resource whose data varies; the other resources hold one fixed value.
Profiles == {"orgs", "licenses", "numbers", "permissions", "intercept", "trunks"}

\* Organization listings: up to MaxOrgs distinct organizations, in any order.
Listings ==
  {l \in SeqsUpTo(Organizations, MaxOrgs) :
     \A a, b \in DOMAIN l : a # b => l[a] # l[b]}

ListingsOf(p) ==
  IF p = "orgs" THEN Listings
  ELSE {l \in Listings : Len(l) = 1 /\ l[1].displayName = "Acme"}

LicenseBodies(p) ==
  {[kind |-> "licenses", items |-> l] :
     l \in IF p = "licenses" THEN SeqsUpTo(LicenseEntries, MaxLicenses)
           ELSE {<<WithSub(License(Professional, 3, 5), "Sub1")>>}}

LookupBodiesOf(p) ==
  IF p = "licenses" THEN LookupBodies
  ELSE {b \in LookupBodies : HasSuccess(b.responseExpression)}

PeopleOwned(number) == "owner" \in DOMAIN number /\ number.owner.type = "PEOPLE"

NumberBodies(p) ==
  {[kind |-> "numbers", phoneNumbers |-> l] :
     l \in IF p = "numbers" THEN SeqsUpTo(NumberEntries, MaxNumbers)
           ELSE IF p \in {"permissions", "intercept"}
                THEN {x \in SeqsUpTo(NumberEntries, MaxNumbers) :
                        Len(x) > 0 /\ \A k \in DOMAIN x : PeopleOwned(x[k])}
                ELSE {x \in SeqsUpTo(NumberEntries, 1) :
                        Len(x) = 1 /\ PeopleOwned(x[1]) /\ "phoneNumber" \in DOMAIN x[1]}}

PermissionBodiesOf(p) ==
  IF p = "permissions" THEN PermissionBodies
  ELSE {b \in PermissionBodies : ~b.useCustomEnabled}

InterceptBodiesOf(p) ==
  IF p = "intercept" THEN InterceptBodies
  ELSE {b \in InterceptBodies : ~b.enabled}

TrunkBodies(p) ==
  {[kind |-> "trunks", trunks |-> l] :
     l \in IF p = "trunks"
           THEN {x \in SeqsUpTo(TrunkEntries, MaxTrunks) :
                   \A a, b \in DOMAIN x : a # b => x[a] # x[b]}
           ELSE {x \in SeqsUpTo(TrunkEntries, 1) : Len(x) = 1 /\ x[1].id = "T1"}}

RouteGroupBodiesOf(p) ==
  IF p = "trunks" THEN RouteGroupBodies
  ELSE {b \in RouteGroupBodies : Len(b.routeGroups) = 1}

\* Responses of the commerce API to one request.
CommerceReplies(bodies) ==
  {Reply(200, b) : b \in bodies}
  \cup {Reply(s, ErrorBody) : s \in CommerceStatuses \ {200}}

\* A get_wrapper call ends in a terminal failure: the first response is a
\* failure other than 403, or it is 403 and the retry fails too.
TerminalFailure(resps) ==
  /\ ~ok(resps[1])
  /\ resps[1].status_code = 403 => ~ok(resps[3])

\* ---------------------------------------------------------------- the state
VARIABLES
  profile,          \* what varies upstream in this run
  ORGS,             \* report.py ORGS, the allow-list of display names
  CCW_INTEGRATION,  \* config.CCW_INTEGRATION
  listing,          \* the organizations the upstream lists
  pc,               \* position of generate_calling_report
  orgs,             \* generate_calling_report: orgs
  orgs_count,       \* generate_calling_report: orgs_count
  counter,          \* generate_calling_report: counter
  idx,              \* position of `for org in orgs` (1-based)
  calling_info,     \* generate_calling_report: calling_info, the aggregate
  df_report1,       \* the license-summary table
  df_report2,       \* the number-detail table
  df_report3,       \* the trunk-detail table
  error_flag,       \* generate_calling_report: error_flag
  log_name,         \* prefix given to the log file at the end of the run
  i,                \* position of the collector's loop (1-based, 0 outside)
  trunks,           \* get_trunks: trunks, the list being walked
  faulty,           \* calls so far that received a non-success response
  last_call,        \* history: the last get_wrapper call of this aggregate
  commerce_log,     \* history: commerce requests made for this aggregate
  failed_orgs,      \* history: organizations with a terminally failed call
  processed         \* history: organizations an aggregate was built for

vars ==
  <<profile, ORGS, CCW_INTEGRATION, listing, pc, orgs, orgs_count, counter, idx,
    calling_info, df_report1, df_report2, df_report3, error_flag, log_name, i,
    trunks, faulty, last_call, commerce_log, failed_orgs, processed>>

config == <<profile, ORGS, CCW_INTEGRATION, listing>>
tables == <<df_report1, df_report2, df_report3>>
driver == <<orgs, orgs_count, counter, idx, error_flag, log_name, processed>>

\* No aggregate is bound to calling_info before the first organization.
Unbound == WebexCallingInfo("None", "None")

NoCall == [resps |-> <<>>, ret |-> None, sent |-> 0]

Init ==
  /\ profile \in Profiles
  /\ listing \in ListingsOf(profile)
  /\ ORGS \in IF profile = "orgs" THEN {{}, {"Acme"}} ELSE {{}}
  /\ CCW_INTEGRATION \in IF profile = "licenses" THEN BOOLEAN ELSE {TRUE}
  /\ pc = "start"
  /\ orgs = <<>>
  /\ orgs_count = 0
  /\ counter = 0
  /\ idx = 0
  /\ calling_info = Unbound
  /\ df_report1 = <<>>
  /\ df_report2 = <<>>
  /\ df_report3 = <<>>
  /\ error_flag = FALSE
  /\ log_name = ""
  /\ i = 0
  /\ trunks = <<>>
  /\ faulty = 0
  /\ last_call = NoCall
  /\ commerce_log = <<>>
  /\ failed_orgs = {}
  /\ processed = <<>>

\* -------------------------------------------------------- history bookkeeping
\* The organization of the current iteration of `for org in orgs`.
org == orgs[idx]

WithinBudget(is_faulty) == faulty + (IF is_faulty THEN 1 ELSE 0) <= MaxFaulty

\* One get_wrapper call of the current aggregate, answered by resps.
Called(resps) ==
  /\ WithinBudget(Faulty(resps))
  /\ faulty' = faulty + (IF Faulty(resps) THEN 1 ELSE 0)
  /\ last_call' = [resps |-> resps,
                   ret |-> get_wrapper(calling_info, resps).ret,
                   sent |-> get_wrapper(calling_info, resps).sent]
  /\ failed_orgs' = IF TerminalFailure(resps)
                    THEN failed_orgs \cup {org.displayName} ELSE failed_orgs

\* One request to the commerce API for the current aggregate.
CommerceCalled(request, sub_id, response) ==
  /\ WithinBudget(response.status_code # 200)
  /\ faulty' = faulty + (IF response.status_code # 200 THEN 1 ELSE 0)
  /\ commerce_log' = Append(commerce_log,
                            [request |-> request, sub_id |-> sub_id,
                             status_code |-> response.status_code,
                             expression |->
                               IF "responseExpression" \in DOMAIN response.body
                               THEN response.body.responseExpression ELSE ""])
  /\ failed_orgs' = IF response.status_code # 200
                    THEN failed_orgs \cup {org.displayName} ELSE failed_orgs

\* The exchanges of a get_wrapper call of the current aggregate for a URL
\* whose successful bodies are `bodies`.
ExchangesFor(bodies) == Exchanges(bodies, OrgDetailsBodies(calling_info.id))

\* ------------------------------------------------------------ the driver
\* get_customer_orgs: the listing request failed
get_customer_orgs_failed(response) == response.status_code # 200

\* An allow-list filter that lets every listed organization through.
filter_orgs_keeps_all(items) == items

\* generate_calling_report: the allow-list filter
filter_orgs(items) ==
  IF Cardinality(ORGS) > 0
  THEN SelectSeq(items, LAMBDA o : o.displayName \in ORGS)
  ELSE items

\* A driver that counts every organization left by the allow-list.
GetCustomerOrgsCountsAll ==
  /\ pc = "start"
  /\ \E response \in Replies({[kind |-> "organizations", items |-> listing]}) :
       IF get_customer_orgs_failed(response) \/ Len(response.body.items) = 0
       THEN /\ pc' = "exit"
            /\ UNCHANGED <<orgs, orgs_count, counter, idx>>
       ELSE /\ orgs' = filter_orgs(response.body.items)
            /\ orgs_count' = Len(orgs')
            /\ counter' = 1
            /\ idx' = 1
            /\ pc' = "loop"
  /\ UNCHANGED <<config, tables, calling_info, error_flag, log_name, i, trunks,
                 faulty, last_call, commerce_log, failed_orgs, processed>>

\* generate_calling_report up to the organization loop
GetCustomerOrgs ==
  /\ pc = "start"
  /\ \E response \in Replies({[kind |-> "organizations", items |-> listing]}) :
       IF get_customer_orgs_failed(response) \/ Len(response.body.items) = 0
       THEN /\ pc' = "exit"
            /\ UNCHANGED <<orgs, orgs_count, counter, idx>>
       ELSE /\ orgs' = filter_orgs(response.body.items)
            /\ orgs_count' = IF Len(orgs') > 1 THEN Len(orgs') - 1 ELSE Len(orgs')
            /\ counter' = 1
            /\ idx' = 1
            /\ pc' = "loop"
  /\ UNCHANGED <<config, tables, calling_info, error_flag, log_name, i, trunks,
                 faulty, last_call, commerce_log, failed_orgs, processed>>

\* `for org in orgs` is exhausted: name the log file after the error flag
Finish ==
  /\ pc = "loop"
  /\ idx > Len(orgs)
  /\ log_name' = IF error_flag THEN "error_" ELSE "clean_"
  /\ pc' = "done"
  /\ UNCHANGED <<config, tables, orgs, orgs_count, counter, idx, calling_info,
                 error_flag, i, trunks, faulty, last_call, commerce_log,
                 failed_orgs, processed>>

\* `if org['displayName'] == config.PARTNER_ORG_NAME: continue`
SkipPartner ==
  /\ pc = "loop"
  /\ idx <= Len(orgs)
  /\ org.displayName = PARTNER_ORG_NAME
  /\ idx' = idx + 1
  /\ UNCHANGED <<config, tables, pc, orgs, orgs_count, counter, calling_info,
                 error_flag, log_name, i, trunks, faulty, last_call, commerce_log,
                 failed_orgs, processed>>

\* calling_info = WebexCallingInfo(...)
NewAggregate ==
  /\ pc = "loop"
  /\ idx <= Len(orgs)
  /\ org.displayName # PARTNER_ORG_NAME
  /\ calling_info' = WebexCallingInfo(org.id, org.displayName)
  /\ processed' = Append(processed, org.displayName)
  /\ last_call' = NoCall
  /\ commerce_log' = <<>>
  /\ pc' = "get_org_details"
  /\ UNCHANGED <<config, tables, orgs, orgs_count, counter, idx, error_flag,
                 log_name, i, trunks, faulty, failed_orgs>>

\* calling_info.get_org_details()
GetOrgDetails ==
  /\ pc = "get_org_details"
  /\ \E resps \in ExchangesFor(OrgDetailsBodies(calling_info.id)) :
       /\ Called(resps)
       /\ calling_info' = get_org_details(calling_info, resps)
  /\ pc' = "get_org_id"
  /\ UNCHANGED <<config, tables, driver, i, trunks, commerce_log>>

\* calling_info.get_org_id()
GetOrgId ==
  /\ pc = "get_org_id"
  /\ calling_info' = get_org_id(calling_info)
  /\ pc' = "get_license_counts"
  /\ UNCHANGED <<config, tables, driver, i, trunks, faulty, last_call,
                 commerce_log, failed_orgs>>

\* A driver that runs the subscription-dates collector whatever the
\* integration flag says.
GetLicenseCountsThenDates ==
  /\ pc = "get_license_counts"
  /\ \E resps \in ExchangesFor(LicenseBodies(profile)) :
       /\ Called(resps)
       /\ calling_info' = get_license_counts(calling_info, resps)
  /\ pc' = "get_license_dates"
  /\ UNCHANGED <<config, tables, driver, i, trunks, commerce_log>>

\* calling_info.get_license_counts()
GetLicenseCounts ==
  /\ pc = "get_license_counts"
  /\ \E resps \in ExchangesFor(LicenseBodies(profile)) :
       /\ Called(resps)
       /\ calling_info' = get_license_counts(calling_info, resps)
  /\ pc' = IF CCW_INTEGRATION THEN "get_license_dates" ELSE "report1"
  /\ UNCHANGED <<config, tables, driver, i, trunks, commerce_log>>

\* A loop over sub_ids that stops at the first lookup that is not answered 200.
next_lookup_breaks(self, k, response) ==
  k < Len(self.sub_ids) /\ response.status_code = 200

\* get_license_dates: whether the loop over sub_ids goes on to a next
\* subscription after the response to the one at position k
next_lookup(self, k, response) == k < Len(self.sub_ids)

\* calling_info.get_license_dates(): the token request
GetLicenseDatesToken ==
  /\ pc = "get_license_dates"
  /\ \E response \in CommerceReplies({[kind |-> "token", access_token |-> "token"]}) :
       /\ CommerceCalled("token", "", response)
       /\ IF response.status_code = 200
          THEN /\ calling_info' = calling_info
               /\ IF Len(calling_info.sub_ids) > 0
                  THEN pc' = "get_subscription_details" /\ i' = 1
                  ELSE pc' = "report1" /\ i' = 0
          ELSE /\ calling_info' = license_date_token_failed(calling_info)
               /\ pc' = "report1"
               /\ i' = 0
  /\ UNCHANGED <<config, tables, driver, trunks, last_call>>

\* calling_info.get_license_dates(): one pass of `for sub_id in self.sub_ids`
GetSubscriptionDetails ==
  /\ pc = "get_subscription_details"
  /\ \E response \in CommerceReplies(LookupBodiesOf(profile)) :
       /\ CommerceCalled("lookup", calling_info.sub_ids[i], response)
       /\ calling_info' = license_date_lookup(calling_info, response)
       /\ IF next_lookup(calling_info, i, response)
          THEN pc' = pc /\ i' = i + 1
          ELSE pc' = "report1" /\ i' = 0
  /\ UNCHANGED <<config, tables, driver, trunks, last_call>>

\* df_report1 = populate_df(calling_info, 1, df_report1)
Report1 ==
  /\ pc = "report1"
  /\ df_report1' = populate_df(calling_info, 1, df_report1)
  /\ pc' = "get_phone_numbers"
  /\ UNCHANGED <<config, df_report2, df_report3, driver, calling_info, i, trunks,
                 faulty, last_call, commerce_log, failed_orgs>>

\* calling_info.get_phone_numbers()
GetPhoneNumbers ==
  /\ pc = "get_phone_numbers"
  /\ \E resps \in ExchangesFor(NumberBodies(profile)) :
       /\ Called(resps)
       /\ calling_info' = get_phone_numbers(calling_info, resps)
  /\ IF Len(calling_info'.phone_numbers) = 0
     THEN pc' = "report2" /\ i' = 0
     ELSE pc' = "get_outbound_permissions" /\ i' = 1
  /\ UNCHANGED <<config, tables, driver, trunks, commerce_log>>

\* The loop over self.phone_numbers moves on, or the collector `after` starts.
NextNumber(after, first) ==
  IF i < Len(calling_info.phone_numbers)
  THEN pc' = pc /\ i' = i + 1
  ELSE pc' = after /\ i' = first

\* get_outbound_permissions: one pass of the loop, for a number with an owner id
GetOutboundPermissions ==
  /\ pc = "get_outbound_permissions"
  /\ calling_info.phone_numbers[i].owner_id # ""
  /\ \E resps \in ExchangesFor(PermissionBodiesOf(profile)) :
       /\ Called(resps)
       /\ calling_info' =
            outbound_permission_lookup(calling_info, calling_info.phone_numbers[i], resps)
  /\ NextNumber("get_intercept_settings", 1)
  /\ UNCHANGED <<config, tables, driver, trunks, commerce_log>>

\* get_outbound_permissions: one pass of the loop, for a number without owner id
SkipOutboundPermissions ==
  /\ pc = "get_outbound_permissions"
  /\ calling_info.phone_numbers[i].owner_id = ""
  /\ NextNumber("get_intercept_settings", 1)
  /\ UNCHANGED <<config, tables, driver, calling_info, trunks, faulty, last_call,
                 commerce_log, failed_orgs>>

\* get_intercept_settings: one pass of the loop, for a number with an owner id
GetInterceptSettings ==
  /\ pc = "get_intercept_settings"
  /\ calling_info.phone_numbers[i].owner_id # ""
  /\ \E resps \in ExchangesFor(InterceptBodiesOf(profile)) :
       /\ Called(resps)
       /\ calling_info' =
            intercept_lookup(calling_info, calling_info.phone_numbers[i], resps)
  /\ NextNumber("report2", 0)
  /\ UNCHANGED <<config, tables, driver, trunks, commerce_log>>

\* get_intercept_settings: one pass of the loop, for a number without owner id
SkipInterceptSettings ==
  /\ pc = "get_intercept_settings"
  /\ calling_info.phone_numbers[i].owner_id = ""
  /\ NextNumber("report2", 0)
  /\ UNCHANGED <<config, tables, driver, calling_info, trunks, faulty, last_call,
                 commerce_log, failed_orgs>>

\* df_report2 = populate_df(calling_info, 2, df_report2)
Report2 ==
  /\ pc = "report2"
  /\ ~populate_df_raises(calling_info, 2)
  /\ df_report2' = populate_df(calling_info, 2, df_report2)
  /\ pc' = "get_trunks"
  /\ UNCHANGED <<config, df_report1, df_report3, driver, calling_info, i, trunks,
                 faulty, last_call, commerce_log, failed_orgs>>

\* populate_df(calling_info, 2, df_report2) raises KeyError, which nothing
\* catches: the run ends there
Report2Raises ==
  /\ pc = "report2"
  /\ populate_df_raises(calling_info, 2)
  /\ pc' = "crashed"
  /\ UNCHANGED <<config, tables, driver, calling_info, i, trunks, faulty,
                 last_call, commerce_log, failed_orgs>>

\* calling_info.get_trunks(): the trunk list request
GetTrunks ==
  /\ pc = "get_trunks"
  /\ \E resps \in ExchangesFor(TrunkBodies(profile)) :
       /\ Called(resps)
       /\ LET r == get_wrapper(calling_info, resps)
          IN /\ calling_info' = r.self
             /\ IF Truthy(r.ret) /\ Len(r.ret.trunks) > 0
                THEN trunks' = r.ret.trunks /\ i' = 1 /\ pc' = "get_route_groups"
                ELSE trunks' = <<>> /\ i' = 0 /\ pc' = "report3"
  /\ UNCHANGED <<config, tables, driver, commerce_log>>

\* calling_info.get_trunks(): one pass of `for trunk in trunks`
GetRouteGroups ==
  /\ pc = "get_route_groups"
  /\ \E resps \in ExchangesFor(RouteGroupBodiesOf(profile)) :
       /\ Called(resps)
       /\ calling_info' = route_group_lookup(calling_info, trunks[i], resps)
  /\ IF i < Len(trunks)
     THEN pc' = pc /\ i' = i + 1 /\ trunks' = trunks
     ELSE pc' = "report3" /\ i' = 0 /\ trunks' = <<>>
  /\ UNCHANGED <<config, tables, driver, commerce_log>>

\* df_report3 = populate_df(calling_info, 3, df_report3)
Report3 ==
  /\ pc = "report3"
  /\ df_report3' = populate_df(calling_info, 3, df_report3)
  /\ pc' = "end_of_org"
  /\ UNCHANGED <<config, df_report1, df_report2, driver, calling_info, i, trunks,
                 faulty, last_call, commerce_log, failed_orgs>>

\* The run-level flag after an organization: error_flag = calling_info.error_flag
run_error_flag(flag, self) == self.error_flag

\* counter += 1 ... error_flag = calling_info.error_flag; next organization
EndOfOrg ==
  /\ pc = "end_of_org"
  /\ counter' = counter + 1
  /\ error_flag' = run_error_flag(error_flag, calling_info)
  /\ idx' = idx + 1
  /\ pc' = "loop"
  /\ UNCHANGED <<config, tables, orgs, orgs_count, calling_info, log_name, i,
                 trunks, faulty, last_call, commerce_log, failed_orgs, processed>>

Next ==
  \/ GetCustomerOrgs
  \/ Finish
  \/ SkipPartner
  \/ NewAggregate
  \/ GetOrgDetails
  \/ GetOrgId
  \/ GetLicenseCounts
  \/ GetLicenseDatesToken
  \/ GetSubscriptionDetails
  \/ Report1
  \/ GetPhoneNumbers
  \/ GetOutboundPermissions
  \/ SkipOutboundPermissions
  \/ GetInterceptSettings
  \/ SkipInterceptSettings
  \/ Report2
  \/ Report2Raises
  \/ GetTrunks
  \/ GetRouteGroups
  \/ Report3
  \/ EndOfOrg

Spec == Init /\ [][Next]_vars

\* ================================================================== claims
\* Rows of the table df that carry the organization name.
RowsOf(df, name) == {k \in DOMAIN df : df[k].Customer_Name = name}

\* Positions of the driver after report 1, 2, 3 of the current organization.
AfterReport1 ==
  {"get_phone_numbers", "get_outbound_permissions", "get_intercept_settings",
   "report2", "get_trunks", "get_route_groups", "report3", "end_of_org", "crashed"}
AfterReport2 == {"get_trunks", "get_route_groups", "report3", "end_of_org"}
AfterReport3 == {"end_of_org"}

\* The run has ended, by the end of generate_calling_report or by an exception.
RunEnded == pc \in {"done", "crashed"}

\* The 200 lookups of the commerce log, in order.
AnsweredLookups ==
  SelectSeq(commerce_log, LAMBDA e : e.request = "lookup" /\ e.status_code = 200)

\* C1: once get_license_counts and get_license_dates have run for an
\* organization, sub_ids, sub_start_dates and sub_end_dates have the same
\* length and the dates at a position come from the lookup of the
\* subscription id at that position.
C1_DatesTrackSubscriptions ==
  (CCW_INTEGRATION /\ pc = "report1") =>
    /\ Len(calling_info.sub_ids) = Len(calling_info.sub_start_dates)
    /\ Len(calling_info.sub_ids) = Len(calling_info.sub_end_dates)
    /\ \A k \in DOMAIN calling_info.sub_start_dates :
         /\ k <= Len(AnsweredLookups)
         /\ k <= Len(calling_info.sub_ids)
         /\ AnsweredLookups[k].sub_id = calling_info.sub_ids[k]

\* C2: at the end of the run the error flag, which names the log file, is
\* true exactly when a call of some processed organization failed terminally.
C2_ErrorFlagTellsFailedRun ==
  pc = "done" =>
    /\ error_flag <=> failed_orgs # {}
    /\ log_name = (IF failed_orgs # {} THEN "error_" ELSE "clean_")

\* C3: whatever calls fail, the run goes through the whole listing: when a
\* run in which some call failed has ended, every organization of the listing
\* that is not excluded has at least one row in each of the three tables.
C3_EveryOrganizationReported ==
  (RunEnded /\ failed_orgs # {}) =>
    \A k \in DOMAIN orgs :
      orgs[k].displayName # PARTNER_ORG_NAME =>
        /\ RowsOf(df_report1, orgs[k].displayName) # {}
        /\ RowsOf(df_report2, orgs[k].displayName) # {}
        /\ RowsOf(df_report3, orgs[k].displayName) # {}

\* C4: a get_wrapper call whose first response is 403 and whose retry after
\* the organization-details request succeeds returns the body of the retried
\* response, not None.
C4_RetriedBodyReturned ==
  (Len(last_call.resps) = 3 /\ ok(last_call.resps[3])) =>
    /\ last_call.ret = last_call.resps[3].body
    /\ last_call.ret # None

C4_Witness ==
  /\ Len(last_call.resps) = 3
  /\ last_call.resps[1].status_code = 403
  /\ ~ok(last_call.resps[2])
  /\ ok(last_call.resps[3])
  /\ last_call.ret.kind = "licenses"
  /\ Cardinality(DOMAIN calling_info.professional_licenses) # 0

\* C5: a get_wrapper call that ends in a terminal failure (first response a
\* failure other than 403, or 403 and the retry fails too) returns None and
\* leaves the error flag of the aggregate true.
C5_TerminalFailureFlagged ==
  (Len(last_call.resps) > 0 /\ TerminalFailure(last_call.resps)) =>
    /\ last_call.ret = None
    /\ calling_info.error_flag

C5_Witness ==
  /\ Len(last_call.resps) = 3
  /\ TerminalFailure(last_call.resps)
  /\ last_call.ret = None
  /\ calling_info.error_flag
  /\ pc = "report1"

\* The lookups of the commerce log, in order.
Lookups == SelectSeq(commerce_log, LAMBDA e : e.request = "lookup")

\* Positions of the driver before report 1 of the current organization.
BeforeReport1 ==
  {"get_org_details", "get_org_id", "get_license_counts", "get_license_dates",
   "get_subscription_details", "report1"}

C7_InterceptEntriesComplete ==
  /\ \A owner \in DOMAIN calling_info.intercept_settings :
       {"call_intercept", "outgoing_permissions"}
         \subseteq DOMAIN calling_info.intercept_settings[owner]
  /\ pc # "crashed"

\* C8: once report 2 was projected for an organization, the number-detail
\* table holds for it exactly one row with empty number fields when it has no
\* phone numbers, and exactly as many rows as phone numbers otherwise.
C8_NumberRowsPerOrganization ==
  pc \in AfterReport2 \cup {"crashed"} =>
    LET n == Len(calling_info.phone_numbers)
        rows == RowsOf(df_report2, calling_info.displayName)
    IN /\ Cardinality(rows) = IF n = 0 THEN 1 ELSE n
       /\ n = 0 => \A k \in rows :
            /\ df_report2[k].Customer_Org_ID = calling_info.org_id
            /\ df_report2[k].Phone_Number = ""
            /\ df_report2[k].Extension = ""
            /\ df_report2[k].Assigned_to = ""
            /\ df_report2[k].Status = ""

\* C9: no trunk without route groups is in the trunks list of an aggregate (a
\* trunk whose lookup returned an empty list is not added), and for an
\* organization whose trunks list is empty report 3 adds exactly one row,
\* with empty trunk and route-group fields.
C9_TrunkPlaceholderRow ==
  /\ \A k \in DOMAIN calling_info.trunks : Len(calling_info.trunks[k].rg_names) > 0
  /\ (pc = "get_route_groups" /\ i > 1 /\ last_call.ret.kind = "routeGroups"
        /\ Len(last_call.ret.routeGroups) = 0) =>
       \A k \in DOMAIN calling_info.trunks : calling_info.trunks[k].id # trunks[i - 1].id
  /\ (pc \in AfterReport3 /\ Len(calling_info.trunks) = 0) =>
       LET rows == RowsOf(df_report3, calling_info.displayName)
       IN /\ Cardinality(rows) = 1
          /\ \A k \in rows :
               /\ df_report3[k].TRUNK = ""
               /\ df_report3[k].ROUTE_GROUP_NAME = ""
               /\ df_report3[k].Customer_Org_ID = calling_info.org_id

C9_Witness ==
  /\ pc = "end_of_org"
  /\ last_call.ret.kind = "routeGroups"
  /\ Len(last_call.ret.routeGroups) = 0
  /\ Len(calling_info.trunks) = 0
  /\ Cardinality(RowsOf(df_report3, calling_info.displayName)) = 1
  /\ df_report3[1].TRUNK = ""

\* C10: report 1 holds exactly one row for every organization it was
\* projected for, whatever the license fetch returned; a license kind the
\* aggregate has no counts for shows blank booked and provisioned cells, not 0.
C10_OneLicenseRowPerOrganization ==
  /\ Len(df_report1) = Len(processed) - (IF pc \in BeforeReport1 THEN 1 ELSE 0)
  /\ \A k \in DOMAIN processed :
       (k < Len(processed) \/ pc \notin BeforeReport1) =>
         Cardinality(RowsOf(df_report1, processed[k])) = 1
  /\ pc \in AfterReport1 =>
       \A k \in RowsOf(df_report1, calling_info.displayName) :
         /\ Cardinality(DOMAIN calling_info.professional_licenses) = 0 =>
              /\ df_report1[k].Booked_Professional_Licenses = Blank
              /\ df_report1[k].Provisioned_Professional_Licenses = Blank
         /\ Cardinality(DOMAIN calling_info.workspace_licenses) = 0 =>
              /\ df_report1[k].Booked_Workspaces = Blank
              /\ df_report1[k].Provisioned_Workspaces = Blank

C10_Witness ==
  /\ pc = "get_phone_numbers"
  /\ ~CCW_INTEGRATION
  /\ Len(last_call.resps) > 0
  /\ last_call.ret = None
  /\ Cardinality(DOMAIN calling_info.professional_licenses) = 0
  /\ Cardinality(DOMAIN calling_info.workspace_licenses) = 0
  /\ Len(df_report1) = 1
  /\ df_report1[1].Booked_Professional_Licenses = Blank
  /\ df_report1[1].Booked_Workspaces = Blank

\* The number a license cell counts for in a total: an empty cell counts 0.
CellValue(cell) == IF cell = Blank THEN 0 ELSE cell[1]

\* The counts of a license kind of the aggregate as cells.
CountCell(counts, field) ==
  IF Cardinality(DOMAIN counts) = 0 THEN Blank ELSE Num(counts[field])

\* C11: in every license-summary row, Booked (TOTAL) is booked professional
\* plus booked workspaces and Provisioned (TOTAL) is provisioned professional
\* plus provisioned workspaces, an empty component counting as 0; the
\* components of the row of the current organization are the counts of its
\* aggregate.
C11_TotalsAreSums ==
  /\ \A k \in DOMAIN df_report1 :
       /\ df_report1[k].Booked_TOTAL =
            Num(CellValue(df_report1[k].Booked_Professional_Licenses)
                + CellValue(df_report1[k].Booked_Workspaces))
       /\ df_report1[k].Provisioned_TOTAL =
            Num(CellValue(df_report1[k].Provisioned_Professional_Licenses)
                + CellValue(df_report1[k].Provisioned_Workspaces))
  /\ pc \in AfterReport1 =>
       \A k \in RowsOf(df_report1, calling_info.displayName) :
         /\ df_report1[k].Booked_Professional_Licenses =
              CountCell(calling_info.professional_licenses, "booked")
         /\ df_report1[k].Booked_Workspaces =
              CountCell(calling_info.workspace_licenses, "booked")
         /\ df_report1[k].Provisioned_Professional_Licenses =
              CountCell(calling_info.professional_licenses, "provisioned")
         /\ df_report1[k].Provisioned_Workspaces =
              CountCell(calling_info.workspace_licenses, "provisioned")

C11_Witness ==
  /\ pc = "get_phone_numbers"
  /\ \E k \in DOMAIN df_report1 :
       /\ df_report1[k].Booked_Professional_Licenses = Num(5)
       /\ df_report1[k].Booked_Workspaces = Blank
       /\ df_report1[k].Booked_TOTAL = Num(5)
  /\ \E k \in DOMAIN df_report1 :
       /\ df_report1[k].Provisioned_Professional_Licenses = Num(3)
       /\ df_report1[k].Provisioned_Workspaces = Blank
       /\ df_report1[k].Provisioned_TOTAL = Num(3)

\* The display names of the listed organizations that the allow-list admits
\* (all of them when the allow-list is empty) and that are not the partner,
\* in the order of the listing.
Selected ==
  LET admitted(o) == (ORGS = {} \/ o.displayName \in ORGS)
                     /\ o.displayName # PARTNER_ORG_NAME
      chosen == SelectSeq(listing, admitted)
  IN [k \in 1..Len(chosen) |-> chosen[k].displayName]

\* The organizations that have a row in some report table.
Reported ==
  {df_report1[k].Customer_Name : k \in DOMAIN df_report1}
  \cup {df_report2[k].Customer_Name : k \in DOMAIN df_report2}
  \cup {df_report3[k].Customer_Name : k \in DOMAIN df_report3}

\* C12: the organizations an aggregate is built for are, in the order of the
\* listing, the listed organizations the allow-list admits (all of them when
\* it is empty) without the partner organization: never one outside that
\* selection, and all of it when the loop is through; rows are projected for
\* these organizations only, and the partner has no row in any table.
C12_SelectedOrganizationsOnly ==
  /\ \A k \in DOMAIN processed : k <= Len(Selected) /\ processed[k] = Selected[k]
  /\ pc = "done" => processed = Selected
  /\ Reported \subseteq Range(processed)
  /\ PARTNER_ORG_NAME \notin Reported
  /\ pc = "done" => Reported = Range(Selected)

C12_Witness ==
  /\ pc = "done"
  /\ ORGS = {"Acme"}
  /\ Len(listing) = 2
  /\ listing[1].displayName = "Bolt"
  /\ processed = <<"Acme">>
  /\ Reported = {"Acme"}

\* The position of an organization in the order of processing.
ProcessedAt(name) == CHOOSE k \in DOMAIN processed : processed[k] = name

\* The rows of the table df are in the order their organizations were
\* processed in.
InProcessingOrder(df) ==
  \A a, b \in DOMAIN df :
    a < b => ProcessedAt(df[a].Customer_Name) <= ProcessedAt(df[b].Customer_Name)

\* C13: populate_df appends: the rows of an organization come after the rows
\* that were in the table before, so that in each of the three tables the
\* rows of an earlier-processed organization precede the rows of every
\* later-processed organization.
C13_RowsInProcessingOrder ==
  /\ InProcessingOrder(df_report1)
  /\ InProcessingOrder(df_report2)
  /\ InProcessingOrder(df_report3)

\* C14: a get_wrapper call issues 1 request when its first response is a
\* success or a failure other than 403, and 3 requests (the original, the
\* organization-details request, the original again) when its first response
\* is 403, whatever the organization-details request returned: the result of
\* the call is then decided by the third response; never more than 3.
C14_OneRecoveryAttempt ==
  Len(last_call.resps) > 0 =>
    /\ last_call.resps[1].status_code # 403 => last_call.sent = 1
    /\ last_call.resps[1].status_code = 403 =>
         /\ last_call.sent = 3
         /\ ok(last_call.resps[3]) => last_call.ret = last_call.resps[3].body
         /\ ~ok(last_call.resps[3]) => last_call.ret = None
    /\ last_call.sent <= 3
    /\ last_call.sent <= Len(last_call.resps)

C14_Witness ==
  /\ Len(last_call.resps) = 3
  /\ last_call.resps[1].status_code = 403
  /\ last_call.resps[2].status_code = 500
  /\ last_call.resps[3].status_code = 403
  /\ last_call.sent = 3
  /\ last_call.ret = None

\* The steps the driver may take next from each position, in the order of
\* generate_calling_report.
StepOrder ==
  /\ pc = "get_org_details" => pc' = "get_org_id"
  /\ pc = "get_org_id" => pc' = "get_license_counts"
  /\ pc = "get_license_counts" =>
       pc' = IF CCW_INTEGRATION THEN "get_license_dates" ELSE "report1"
  /\ pc = "get_license_dates" => pc' \in {"get_subscription_details", "report1"}
  /\ pc = "get_subscription_details" => pc' \in {"get_subscription_details", "report1"}
  /\ pc = "report1" => pc' = "get_phone_numbers"
  /\ pc = "get_phone_numbers" =>
       pc' = IF Len(calling_info'.phone_numbers) > 0
             THEN "get_outbound_permissions" ELSE "report2"
  /\ pc = "get_outbound_permissions" =>
       pc' \in {"get_outbound_permissions", "get_intercept_settings"}
  /\ pc = "get_intercept_settings" => pc' \in {"get_intercept_settings", "report2"}
  /\ pc = "report2" => pc' \in {"get_trunks", "crashed"}
  /\ pc = "get_trunks" => pc' \in {"get_route_groups", "report3"}
  /\ pc = "get_route_groups" => pc' \in {"get_route_groups", "report3"}
  /\ pc = "report3" => pc' = "end_of_org"
  /\ pc = "end_of_org" => pc' = "loop"
  /\ pc' = "get_org_details" => pc = "loop"

\* What each step finds done and leaves alone: a projection happens at its
\* own step only, and an aggregate is started only between organizations.
StepEffects ==
  /\ df_report1' # df_report1 => pc = "report1"
  /\ df_report2' # df_report2 => pc = "report2"
  /\ df_report3' # df_report3 => pc = "report3"
  /\ processed' # processed =>
       /\ pc = "loop"
       /\ Len(df_report1) = Len(processed)
       /\ \A k \in DOMAIN processed :
            /\ RowsOf(df_report1, processed[k]) # {}
            /\ RowsOf(df_report2, processed[k]) # {}
            /\ RowsOf(df_report3, processed[k]) # {}
  /\ calling_info'.org_id # calling_info.org_id => pc \in {"loop", "get_org_id"}
  /\ calling_info'.sub_ids # calling_info.sub_ids => pc \in {"loop", "get_license_counts"}
  /\ calling_info'.sub_start_dates # calling_info.sub_start_dates =>
       pc \in {"loop", "get_subscription_details"} /\ CCW_INTEGRATION
  /\ calling_info'.phone_numbers # calling_info.phone_numbers =>
       pc \in {"loop", "get_phone_numbers"}
  /\ calling_info'.outgoing_permissions # calling_info.outgoing_permissions =>
       pc \in {"loop", "get_outbound_permissions"}
  /\ calling_info'.intercept_settings # calling_info.intercept_settings =>
       pc \in {"loop", "get_intercept_settings"}
  /\ calling_info'.trunks # calling_info.trunks => pc \in {"loop", "get_route_groups"}

\* C15: for each processed organization the steps come in a fixed order:
\* org-id decode, license counts, subscription dates (only with the
\* integration flag on), report 1, phone numbers, outbound permissions then
\* intercept settings (only when there are phone numbers), report 2, trunks,
\* report 3; and the aggregate of the next organization is started only when
\* all three reports of the organizations before it are projected.
C15_FixedStepOrder == [][StepOrder /\ StepEffects]_vars

C15_Witness ==
  /\ pc = "end_of_org"
  /\ Len(processed) = 2
  /\ CCW_INTEGRATION
  /\ Len(calling_info.phone_numbers) > 0
  /\ DOMAIN calling_info.intercept_settings # {}
  /\ Len(calling_info.trunks) > 0
  /\ Len(df_report3) = 2

\* Positions of the driver at which the last get_wrapper call of the
\* aggregate is the one get_license_counts made.
AfterLicenseCounts ==
  {"get_license_dates", "get_subscription_details", "report1", "get_phone_numbers"}

\* The license list get_license_counts was given.
LicensesFetched == pc \in AfterLicenseCounts /\ last_call.ret.kind = "licenses"

\* The entries of a license list that carry exactly the name.
Named(licenses, name) == SelectSeq(licenses, LAMBDA l : l.name = name)

\* The sum of a units field over a license list.
RECURSIVE SumUnits(_, _)
SumUnits(licenses, field) ==
  IF licenses = <<>> THEN 0
  ELSE Head(licenses)[field] + SumUnits(Tail(licenses), field)

\* The counts of a kind are the sums over the entries of that name; with no
\* entry of that name the aggregate has no counts for the kind.
CountsAreSums(counts, entries) ==
  IF entries = <<>> THEN counts = EmptyDict
  ELSE /\ DOMAIN counts = {"provisioned", "booked"}
       /\ counts.provisioned = SumUnits(entries, "consumedUnits")
       /\ counts.booked = SumUnits(entries, "totalUnits")

\* C16: after get_license_counts, for each of the two kinds provisioned is
\* the sum of consumedUnits and booked the sum of totalUnits over the license
\* entries of exactly that name; entries of any other name change nothing;
\* when the fetch failed there are no counts.
C16_CountsSumPerKind ==
  /\ LicensesFetched =>
       /\ CountsAreSums(calling_info.professional_licenses,
                        Named(last_call.ret.items, Professional))
       /\ CountsAreSums(calling_info.workspace_licenses,
                        Named(last_call.ret.items, Workspaces))
  /\ (pc \in AfterLicenseCounts /\ last_call.ret = None) =>
       /\ calling_info.professional_licenses = EmptyDict
       /\ calling_info.workspace_licenses = EmptyDict

C16_Witness ==
  /\ LicensesFetched
  /\ Len(Named(last_call.ret.items, Professional)) = 2
  /\ last_call.ret.items[1].consumedUnits = 3
  /\ last_call.ret.items[2].consumedUnits = 4
  /\ calling_info.professional_licenses.provisioned = 7
  /\ calling_info.professional_licenses.booked = 11

\* The subscription ids of a license list in order of first appearance: the
\* non-empty subscriptionId values of the entries of the two kinds.
RECURSIVE FirstSeen(_, _)
FirstSeen(licenses, seen) ==
  IF licenses = <<>> THEN seen
  ELSE LET l == Head(licenses)
           counted == l.name \in {Professional, Workspaces}
                      /\ "subscriptionId" \in DOMAIN l
                      /\ l.subscriptionId # ""
                      /\ \A k \in DOMAIN seen : seen[k] # l.subscriptionId
       IN FirstSeen(Tail(licenses), IF counted THEN Append(seen, l.subscriptionId) ELSE seen)

\* C17: after get_license_counts, sub_ids has no duplicate and no empty
\* string and holds exactly the non-empty subscriptionId values of the
\* Professional and Workspaces entries, both kinds in one list, in order of
\* first appearance in the license list.
C17_SubscriptionIdsFirstSeen ==
  /\ \A a, b \in DOMAIN calling_info.sub_ids :
       a # b => calling_info.sub_ids[a] # calling_info.sub_ids[b]
  /\ \A a \in DOMAIN calling_info.sub_ids : calling_info.sub_ids[a] # ""
  /\ LicensesFetched => calling_info.sub_ids = FirstSeen(last_call.ret.items, <<>>)

C17_Witness ==
  /\ LicensesFetched
  /\ Len(last_call.ret.items) = 2
  /\ last_call.ret.items[1].name = Workspaces
  /\ last_call.ret.items[2].name = Professional
  /\ last_call.ret.items[1].subscriptionId = "Sub1"
  /\ "subscriptionId" \in DOMAIN last_call.ret.items[2]
  /\ last_call.ret.items[2].subscriptionId = "Sub1"
  /\ calling_info.sub_ids = <<"Sub1">>

\* The last get_wrapper call of the aggregate is the one get_phone_numbers
\* made, and it returned the number list.
NumbersFetched == last_call.ret.kind = "numbers"

\* The owner ids of the phone-number records of the aggregate.
OwnerIds ==
  {calling_info.phone_numbers[k].owner_id : k \in DOMAIN calling_info.phone_numbers}

\* C18: a phone number whose owner is not of type PEOPLE has owner '' and
\* owner_id '', and no permission or intercept lookup is made for it: when no
\* number of the aggregate has an owner id, get_phone_numbers' call is still
\* the last one at report 2; every key of outgoing_permissions and of
\* intercept_settings is the (non-empty) owner_id of some phone-number record
\* of the same aggregate.
C18_OnlyPeopleAreLookedUp ==
  /\ NumbersFetched =>
       /\ Len(calling_info.phone_numbers) = Len(last_call.ret.phoneNumbers)
       /\ \A k \in DOMAIN calling_info.phone_numbers :
            ~PeopleOwned(last_call.ret.phoneNumbers[k]) =>
              /\ calling_info.phone_numbers[k].owner = ""
              /\ calling_info.phone_numbers[k].owner_id = ""
  /\ (pc = "report2" /\ calling_info.phone_numbers # <<>> /\ OwnerIds = {""}) =>
       NumbersFetched
  /\ DOMAIN calling_info.outgoing_permissions \subseteq OwnerIds \ {""}
  /\ DOMAIN calling_info.intercept_settings \subseteq OwnerIds \ {""}

C18_Witness ==
  /\ pc = "report2"
  /\ Len(calling_info.phone_numbers) = 2
  /\ calling_info.phone_numbers[1].phone_number = "15552000"
  /\ calling_info.phone_numbers[1].owner = ""
  /\ calling_info.phone_numbers[1].owner_id = ""
  /\ calling_info.phone_numbers[2].owner_id = "U1"
  /\ DOMAIN calling_info.outgoing_permissions = {"U1"}
  /\ DOMAIN calling_info.intercept_settings = {"U1"}

\* The last get_wrapper call of the aggregate is a permission lookup that
\* returned a body.
PermissionFetched == last_call.ret.kind = "outgoingPermission"

\* The owner id the last permission lookup was made for: that of the last
\* number with an owner id that the loop has passed.
PermissionOwner ==
  LET passed == IF pc = "get_outbound_permissions" THEN i - 1
                ELSE Len(calling_info.phone_numbers)
      looked == {k \in 1..passed : calling_info.phone_numbers[k].owner_id # ""}
      last == CHOOSE k \in looked : \A j \in looked : j <= k
  IN calling_info.phone_numbers[last].owner_id

\* The ten permission columns of a number-detail row are blank.
ColumnsBlank(row) == \A c \in DOMAIN PermissionColumns : row[c] = ""

\* C19: a permission response with useCustomEnabled false is stored as
\* 'Default Settings' with all ten detail fields empty, whatever its
\* callingPermissions are; the number-detail row of the owner then shows
\* 'Default Settings' and ten blank permission columns; a row has a filled
\* permission column only when it shows 'Custom Settings'.
C19_DefaultSettingsBlank ==
  /\ (PermissionFetched /\ ~last_call.ret.useCustomEnabled) =>
       LET stored == calling_info.outgoing_permissions[PermissionOwner]
       IN /\ stored.outgoing_call_permissions = "Default Settings"
          /\ \A f \in DetailFields : stored[f] = ""
  /\ \A owner \in DOMAIN calling_info.outgoing_permissions :
       LET stored == calling_info.outgoing_permissions[owner]
       IN stored.outgoing_call_permissions = "Default Settings" =>
            \A f \in DetailFields : stored[f] = ""
  /\ \A k \in DOMAIN df_report2 :
       /\ df_report2[k].Outgoing_Call_Permissions = "Default Settings" =>
            ColumnsBlank(df_report2[k])
       /\ ~ColumnsBlank(df_report2[k]) =>
            df_report2[k].Outgoing_Call_Permissions = "Custom Settings"
  /\ pc \in AfterReport2 =>
       \A k \in DOMAIN calling_info.phone_numbers :
         LET owner == calling_info.phone_numbers[k].owner_id
         IN owner \in DOMAIN calling_info.outgoing_permissions =>
              df_report2[k].Outgoing_Call_Permissions =
                calling_info.outgoing_permissions[owner].outgoing_call_permissions

C19_Witness ==
  /\ pc = "get_trunks"
  /\ "U1" \in DOMAIN calling_info.outgoing_permissions
  /\ calling_info.outgoing_permissions["U1"].outgoing_call_permissions = "Default Settings"
  /\ calling_info.outgoing_permissions["U1"].internal = ""
  /\ df_report2[1].Assigned_to = "Ann Lee"
  /\ df_report2[1].Outgoing_Call_Permissions = "Default Settings"
  /\ ColumnsBlank(df_report2[1])

\* C20 as claimed: the status of a phone-number record is 'Active' exactly
\* when the upstream state is ACTIVE, and 'Not Applicable' in every other
\* case, an entry without a state included.
C20_StatusActiveOrNotApplicable ==
  NumbersFetched =>
    \A k \in DOMAIN calling_info.phone_numbers :
      LET number == last_call.ret.phoneNumbers[k]
          active == "state" \in DOMAIN number /\ number.state = "ACTIVE"
      IN calling_info.phone_numbers[k].status =
           IF active THEN "Active" ELSE "Not Applicable"

\* C20 as amended: the status is 'Active' exactly when the entry carries the
\* state ACTIVE, 'Not Applicable' when it carries any other state, and stays
\* '' when the entry carries no state.
C20_StatusFollowsState ==
  NumbersFetched =>
    \A k \in DOMAIN calling_info.phone_numbers :
      LET number == last_call.ret.phoneNumbers[k]
          status == calling_info.phone_numbers[k].status
      IN /\ status = "Active" <=> ("state" \in DOMAIN number /\ number.state = "ACTIVE")
         /\ status = "Not Applicable" <=>
              ("state" \in DOMAIN number /\ number.state # "ACTIVE")
         /\ status = "" <=> "state" \notin DOMAIN number

C20_Witness ==
  /\ NumbersFetched
  /\ Len(calling_info.phone_numbers) = 2
  /\ "state" \in DOMAIN last_call.ret.phoneNumbers[1]
  /\ last_call.ret.phoneNumbers[1].state = "INACTIVE"
  /\ calling_info.phone_numbers[1].status = "Not Applicable"
  /\ "state" \notin DOMAIN last_call.ret.phoneNumbers[2]
  /\ calling_info.phone_numbers[2].status = ""

\* C21: in get_license_dates, every lookup answered 200 appends exactly one
\* start date and one end date, in the order of the lookups, which is the
\* order of sub_ids: the literal 'Unknown' twice when the response expression
\* does not report SUCCESS (the id is not skipped), the two formatted dates of
\* the subscription when it does.
C21_UnknownWhenUnconfirmed ==
  /\ Len(calling_info.sub_start_dates) = Len(AnsweredLookups)
  /\ Len(calling_info.sub_end_dates) = Len(AnsweredLookups)
  /\ \A k \in DOMAIN AnsweredLookups :
       IF AnsweredLookups[k].expression = "SUCCESS"
       THEN /\ calling_info.sub_start_dates[k] = "01/15/2023"
            /\ calling_info.sub_end_dates[k] = "01/14/2024"
       ELSE /\ calling_info.sub_start_dates[k] = "Unknown"
            /\ calling_info.sub_end_dates[k] = "Unknown"
  /\ \A k \in DOMAIN Lookups :
       /\ k <= Len(calling_info.sub_ids)
       /\ Lookups[k].sub_id = calling_info.sub_ids[k]

C21_Witness ==
  /\ pc = "report1"
  /\ calling_info.sub_ids = <<"Sub1", "Sub2">>
  /\ Len(AnsweredLookups) = 2
  /\ AnsweredLookups[1].expression = "GSA003"
  /\ AnsweredLookups[2].expression = "SUCCESS"
  /\ calling_info.sub_start_dates = <<"Unknown", "01/15/2023">>
  /\ calling_info.sub_end_dates = <<"Unknown", "01/14/2024">>

\* The map m2 is the map m1 with the entry of owner set anew, every other
\* entry as it was.
Overwritten(m1, m2, owner) ==
  /\ DOMAIN m2 = DOMAIN m1 \cup {owner}
  /\ \A o \in DOMAIN m1 : o # owner => m2[o] = m1[o]

\* One pass of the loop of get_outbound_permissions over the record at i.
PermissionPass ==
  pc = "get_outbound_permissions" =>
    LET owner == calling_info.phone_numbers[i].owner_id
        before == calling_info.outgoing_permissions
        after == calling_info'.outgoing_permissions
    IN /\ calling_info'.phone_numbers = calling_info.phone_numbers
       /\ IF i < Len(calling_info.phone_numbers)
          THEN pc' = pc /\ i' = i + 1
          ELSE pc' = "get_intercept_settings" /\ i' = 1
       /\ owner = "" => after = before /\ last_call' = last_call /\ faulty' = faulty
       /\ owner # "" =>
            /\ last_call'.sent \in {1, 3}
            /\ last_call'.ret.kind \in {"outgoingPermission", "None"}
            /\ last_call'.ret = None => after = before /\ calling_info'.error_flag
            /\ last_call'.ret # None =>
                 /\ Overwritten(before, after, owner)
                 /\ after[owner].outgoing_call_permissions =
                      IF last_call'.ret.useCustomEnabled
                      THEN "Custom Settings" ELSE "Default Settings"

\* One pass of the loop of get_intercept_settings over the record at i.
InterceptPass ==
  pc = "get_intercept_settings" =>
    LET owner == calling_info.phone_numbers[i].owner_id
        before == calling_info.intercept_settings
        after == calling_info'.intercept_settings
    IN /\ calling_info'.phone_numbers = calling_info.phone_numbers
       /\ IF i < Len(calling_info.phone_numbers)
          THEN pc' = pc /\ i' = i + 1
          ELSE pc' = "report2" /\ i' = 0
       /\ owner = "" => after = before /\ last_call' = last_call /\ faulty' = faulty
       /\ owner # "" =>
            /\ last_call'.sent \in {1, 3}
            /\ last_call'.ret.kind \in {"intercept", "None"}
            /\ last_call'.ret = None => after = before /\ calling_info'.error_flag
            /\ last_call'.ret # None =>
                 /\ Overwritten(before, after, owner)
                 /\ after[owner].call_intercept =
                      IF last_call'.ret.enabled THEN "Enable" ELSE "Disable"

\* The owners of phone-number records without an entry in the map.
Unrecorded(map) == (OwnerIds \ {""}) \ DOMAIN map

\* The phone-number records of an owner.
RecordsOf(owner) ==
  {k \in DOMAIN calling_info.phone_numbers :
     calling_info.phone_numbers[k].owner_id = owner}

\* C22: get_outbound_permissions and get_intercept_settings pass over every
\* phone-number record once, in order, and make one lookup for each record
\* with a non-empty owner_id, also when the owner has an entry already; a
\* lookup that returns a body sets the entry of that owner anew and leaves
\* the other entries alone, a lookup that fails leaves the map as it was and
\* sets the error flag; so an owner is without an entry after a collector
\* only when the error flag is set and at least as many calls of the run met
\* a failure as the owner has records.
C22_OneLookupPerRecord ==
  /\ [][PermissionPass /\ InterceptPass]_vars
  /\ [](pc \in {"get_intercept_settings", "report2"} =>
          \A owner \in Unrecorded(calling_info.outgoing_permissions) :
            calling_info.error_flag /\ faulty >= Cardinality(RecordsOf(owner)))
  /\ [](pc = "report2" =>
          \A owner \in Unrecorded(calling_info.intercept_settings) :
            calling_info.error_flag /\ faulty >= Cardinality(RecordsOf(owner)))

C22_Witness ==
  /\ pc = "get_intercept_settings"
  /\ i = 1
  /\ Len(calling_info.phone_numbers) = 2
  /\ calling_info.phone_numbers[1].owner_id = "U1"
  /\ calling_info.phone_numbers[2].owner_id = "U1"
  /\ last_call.ret = None
  /\ calling_info.error_flag
  /\ "U1" \in DOMAIN calling_info.outgoing_permissions
  /\ calling_info.outgoing_permissions["U1"].outgoing_call_permissions = "Custom Settings"

\* The total shown for a list of organizations: one less than its length
\* when it holds more than one organization, its length otherwise.
ShownTotal(list) == IF Len(list) > 1 THEN Len(list) - 1 ELSE Len(list)

\* The partner organizations of a list.
Partners(list) == {k \in DOMAIN list : list[k].displayName = PARTNER_ORG_NAME}

\* The driver has the organizations to process.
Listed == pc \notin {"start", "exit"}

\* C23 as claimed: the total of the 'k of N' display is computed from the
\* listed organizations; at the end of the run it equals the number of
\* organizations processed when the listing holds more than one organization
\* and exactly one partner, and is one less than the number processed when
\* the listing holds more than one organization and no partner.
C23_TotalOfListing ==
  /\ Listed => orgs_count = ShownTotal(listing)
  /\ (pc = "done" /\ Len(listing) > 1 /\ Cardinality(Partners(listing)) = 1) =>
       orgs_count = Len(processed)
  /\ (pc = "done" /\ Len(listing) > 1 /\ Partners(listing) = {}) =>
       /\ orgs_count = Len(processed) - 1
       /\ counter - 1 = orgs_count + 1

\* C23 as amended: the total is computed from the organizations the
\* allow-list leaves (all listed ones when it is empty), whatever their
\* names; at the end of the run it equals the number of organizations
\* processed when that list holds more than one organization and exactly one
\* partner, and is one less than the number processed, the last 'k' shown
\* being N + 1, when it holds more than one organization and no partner.
C23_TotalOfFilteredListing ==
  /\ Listed =>
       /\ orgs = filter_orgs(listing)
       /\ orgs_count = ShownTotal(orgs)
  /\ (pc = "done" /\ Len(orgs) > 1 /\ Cardinality(Partners(orgs)) = 1) =>
       orgs_count = Len(processed)
  /\ (pc = "done" /\ Len(orgs) > 1 /\ Partners(orgs) = {}) =>
       /\ orgs_count = Len(processed) - 1
       /\ counter - 1 = orgs_count + 1
  /\ (pc = "done" /\ Len(orgs) = 1 /\ Partners(orgs) = {}) =>
       /\ orgs_count = Len(processed)
       /\ counter - 1 = orgs_count

C23_Witness ==
  /\ pc = "done"
  /\ ORGS = {}
  /\ Len(orgs) = 2
  /\ Partners(orgs) = {}
  /\ orgs_count = 1
  /\ Len(processed) = 2
  /\ counter = 3

\* A step on the aggregate bound to calling_info (not the step that binds a
\* new one).
SameAggregate == processed' = processed

\* C24: a get_wrapper call that returns a body leaves the error flag of the
\* aggregate as it was, and no step on an aggregate takes its error flag from
\* true to false; so the error flag of an aggregate is true exactly when some
\* call made for it ended in failure: a get_wrapper call that returned None,
\* or a token or lookup request of get_license_dates not answered 200.
C24_FlagOnlyRaisedByFailure ==
  /\ [][SameAggregate =>
          /\ calling_info.error_flag => calling_info'.error_flag
          /\ (last_call' # last_call /\ last_call'.ret # None) =>
               calling_info'.error_flag = calling_info.error_flag
          /\ (~calling_info.error_flag /\ calling_info'.error_flag) =>
               \/ last_call'.resps # <<>> /\ last_call'.ret = None
               \/ /\ Len(commerce_log') = Len(commerce_log) + 1
                  /\ commerce_log'[Len(commerce_log')].status_code # 200]_vars
  /\ [](calling_info.error_flag <=> calling_info.displayName \in failed_orgs)

C24_Witness ==
  /\ calling_info.error_flag
  /\ Len(last_call.resps) = 3
  /\ ok(last_call.resps[3])
  /\ last_call.ret # None
  /\ pc = "get_trunks"

\* The ids of the trunks of an aggregate.
TrunkIds(self) == {self.trunks[k].id : k \in DOMAIN self.trunks}

\* The trunk-list request of get_trunks.
TrunkListStep ==
  pc = "get_trunks" =>
    /\ last_call'.ret = None =>
         /\ calling_info'.trunks = <<>>
         /\ calling_info'.error_flag
         /\ pc' = "report3"
    /\ (last_call'.ret # None /\ Len(last_call'.ret.trunks) > 0) =>
         /\ pc' = "get_route_groups"
         /\ trunks' = last_call'.ret.trunks
         /\ i' = 1

\* One pass of the loop of get_trunks over the trunk at i.
RouteGroupStep ==
  pc = "get_route_groups" =>
    /\ last_call'.ret = None =>
         /\ calling_info'.trunks = calling_info.trunks
         /\ trunks[i].id \notin TrunkIds(calling_info')
         /\ calling_info'.error_flag
    /\ IF i < Len(trunks)
       THEN pc' = "get_route_groups" /\ i' = i + 1 /\ trunks' = trunks
       ELSE pc' = "report3"

\* C25: in get_trunks, a trunk whose route-group request ends in a terminal
\* failure is not added to the trunks list and the error flag is set, and the
\* loop goes on to the next trunk of the list; when the trunk-list request
\* fails, trunks stays empty, the error flag is set and report 3 follows,
\* which adds the one placeholder row of an organization without trunks.
C25_TrunkFailuresAbsorbed ==
  /\ [][TrunkListStep /\ RouteGroupStep]_vars
  /\ [][(pc = "report3" /\ calling_info.trunks = <<>>) =>
          /\ Len(df_report3') = Len(df_report3) + 1
          /\ df_report3'[1] = [Customer_Name |-> calling_info.displayName,
                               Customer_Org_ID |-> calling_info.org_id,
                               TRUNK |-> "", ROUTE_GROUP_NAME |-> ""]]_vars

C25_Witness ==
  /\ pc = "get_route_groups"
  /\ i = 2
  /\ Len(trunks) = 2
  /\ Len(last_call.resps) > 0
  /\ last_call.ret = None
  /\ calling_info.error_flag
  /\ calling_info.trunks = <<>>

====
